---- MODULE Spec2Model ----
(***************************************************************************)
(* Model of reV/supply_curve/exclusions.py: the layer policy (LayerMask)   *)
(* and the inclusion-mask engine (ExclusionMask) with its window expander  *)
(* and contiguous-area filter.                                             *)
(*                                                                         *)
(* Numbers.  Weights and mask cells are floats in the source; here they    *)
(* are exact rationals <<n, d>> (d > 0, lowest terms).  Every value used   *)
(* (k/4 for small k) is exactly representable in float16, so float16       *)
(* arithmetic on them is exact.  Areas are integers in units of 1e-4 km2.  *)
(***************************************************************************)
EXTENDS Integers, Sequences, FiniteSets, TLC

VARIABLES
    inp,     \* harness of the pure functions: the arguments of the call
    out,     \* harness of the pure functions: the value returned, or None
    store,   \* the exclusions .h5 file: catalogue, shape, raw rasters
    handle,  \* state of the ExclusionLayers handle: "none", "open", "closed"
    engine,  \* the ExclusionMask object, or None
    calls,   \* the local variables of each caller's _generate_mask call
    scope,   \* position of the with-block around the engine
    log      \* what was observed: catalogue fetches, whether the last
             \* add_layer warned, whether two calls ever overlapped, the
             \* kernel name the constructor was given

vars == <<inp, out, store, handle, engine, calls, scope, log>>

engineVars == <<store, handle, engine, calls, scope, log>>

pureVars == <<inp, out>>

\* Python's None
None == [tag |-> "None"]

\* the engine's variables in the specifications of the pure functions
NoEngine ==
    /\ store = None
    /\ handle = "none"
    /\ engine = None
    /\ calls = None
    /\ scope = None
    /\ log = None

(***************************************************************************)
(* Rational arithmetic standing for numpy's float arithmetic.              *)
(***************************************************************************)
Abs(x) == IF x < 0 THEN -x ELSE x

Min2(a, b) == IF a < b THEN a ELSE b

Max2(a, b) == IF a > b THEN a ELSE b

RECURSIVE GCD(_, _)
GCD(a, b) == IF b = 0 THEN a ELSE GCD(b, a % b)

Rat(n, d) == LET g == GCD(Abs(n), d) IN <<n \div g, d \div g>>

Zero == Rat(0, 1)

One == Rat(1, 1)

Half == Rat(1, 2)

RMul(x, y) == Rat(x[1] * y[1], x[2] * y[2])

RLt(x, y) == x[1] * y[2] < y[1] * x[2]

RLeq(x, y) == x[1] * y[2] <= y[1] * x[2]

(***************************************************************************)
(* float16, the element type of every mask (.astype('float16')): binary    *)
(* floating point with an 11-bit significand, least exponent -14 and       *)
(* subnormals in units of 2^-24, round to nearest, ties to even.           *)
(***************************************************************************)
RECURSIVE Pow(_, _)
Pow(b, e) == IF e = 0 THEN 1 ELSE b * Pow(b, e - 1)

\* floor(log2(n / d)) for n, d > 0
RECURSIVE Log2Floor(_, _)
Log2Floor(n, d) ==
    IF n >= 2 * d THEN 1 + Log2Floor(n, 2 * d)
    ELSE IF n < d THEN Log2Floor(2 * n, d) - 1
    ELSE 0

\* num / den rounded to the nearest integer, ties to the even one
RoundHalfEven(num, den) ==
    LET q == num \div den
        r == num % den
    IN  IF 2 * r > den \/ (2 * r = den /\ q % 2 = 1) THEN q + 1 ELSE q

\* the float16 infinity
Inf16 == <<1, 0>>

\* the float16 nearest to the rational x (x >= 0).  A multiple of 2^-24
\* below 2^11 is a float16 itself; near any other x the spacing of float16
\* values is 2^qe.
Fl16(x) ==
    IF x[1] < 2048 /\ 16777216 % x[2] = 0 THEN x
    ELSE LET e  == Log2Floor(x[1], x[2])
             qe == Max2(e - 10, 0 - 24)
             g  == IF qe < 0 THEN GCD(x[2], Pow(2, 0 - qe)) ELSE 1
             M  == IF qe >= 0 THEN RoundHalfEven(x[1], x[2] * Pow(2, qe))
                   ELSE RoundHalfEven(x[1] * (Pow(2, 0 - qe) \div g), x[2] \div g)
         IN  IF qe >= 0
             THEN IF M * Pow(2, qe) >= 65536 THEN Inf16 ELSE Rat(M * Pow(2, qe), 1)
             ELSE Rat(M, Pow(2, 0 - qe))

\* the product of two float16 values, a float16
Mul16(x, y) == Fl16(RMul(x, y))


(***************************************************************************)
(* Dense 2-D arrays (numpy ndarray): a shape and a value per cell,         *)
(* zero-based.                                                             *)
(***************************************************************************)
Cells(nr, nc) == (0 .. nr - 1) \X (0 .. nc - 1)

Dom(a) == Cells(a.nr, a.nc)

\* a[r0:r1, c0:c1] with numpy's clipping of out-of-range bounds
Crop(a, r0, r1, c0, c1) ==
    LET rs == Min2(r0, a.nr)
        re == Max2(rs, Min2(r1, a.nr))
        cs == Min2(c0, a.nc)
        ce == Max2(cs, Min2(c1, a.nc))
    IN  [nr |-> re - rs, nc |-> ce - cs,
         at |-> [p \in Cells(re - rs, ce - cs) |-> a.at[<<rs + p[1], cs + p[2]>>]]]

\* mask = layer_mask in place of the product
ArrLast(a, b) == b

\* mask *= layer_mask: the elementwise float16 product in place, the second array
\* broadcast to the first's shape, ValueError when it cannot be
ArrMul(a, b) ==
    IF b.nr \in {a.nr, 1} /\ b.nc \in {a.nc, 1}
    THEN [a EXCEPT !.at = [p \in Dom(a) |->
              Mul16(a.at[p], b.at[<<IF b.nr = 1 THEN 0 ELSE p[1],
                                    IF b.nc = 1 THEN 0 ELSE p[2]>>])]]
    ELSE [exc |-> "ValueError"]

(***************************************************************************)
(* Area filter.                                                            *)
(***************************************************************************)
ExArea == 81

FILTER_KERNELS ==
    [queen |-> <<<<1, 1, 1>>, <<1, 1, 1>>, <<1, 1, 1>>>>,
     rook  |-> <<<<0, 1, 0>>, <<1, 1, 1>>, <<0, 1, 0>>>>]

\* q is a neighbour of p under the 3x3 structuring element s
Adjacent(s, p, q) ==
    /\ Abs(q[1] - p[1]) <= 1
    /\ Abs(q[2] - p[2]) <= 1
    /\ s[q[1] - p[1] + 2][q[2] - p[2] + 2] = 1

RECURSIVE Grow(_, _, _)
Grow(S, fg, s) ==
    LET T == S \cup {q \in fg : \E p \in S : Adjacent(s, p, q)}
    IN  IF T = S THEN S ELSE Grow(T, fg, s)

\* the feature (maximal connected set of foreground cells) holding p
Feature(p, fg, s) == Grow({p}, fg, s)

RasterIdx(p, nc) == p[1] * nc + p[2]

FirstIdx(S, nc) == CHOOSE i \in {RasterIdx(p, nc) : p \in S} :
                       \A q \in S : i <= RasterIdx(q, nc)

\* scipy.ndimage.label(input, structure): background 0, features numbered
\* 1, 2, ... in raster order of their first cell
NdLabel(input, s) ==
    LET fg    == {p \in Dom(input) : input.at[p]}
        feats == {Feature(p, fg, s) : p \in fg}
        num(f) == Cardinality({g \in feats : FirstIdx(g, input.nc) <= FirstIdx(f, input.nc)})
    IN  [p \in Dom(input) |-> IF p \in fg THEN num(Feature(p, fg, s)) ELSE 0]

RECURSIVE SortedSeq(_)
SortedSeq(S) ==
    IF S = {} THEN <<>>
    ELSE LET m == CHOOSE x \in S : \A y \in S : x <= y
         IN  <<m>> \o SortedSeq(S \ {m})

\* np.unique(labels, return_counts=True): the sorted distinct values and
\* how often each occurs
NpUnique(labels) ==
    LET l == SortedSeq({labels[p] : p \in DOMAIN labels})
    IN  [l |-> l,
         c |-> [i \in 1 .. Len(l) |-> Cardinality({p \in DOMAIN labels : labels[p] = l[i]})]]

\* x[1:]
From1(x) == SubSeq(x, 2, Len(x))

\* np.ceil(min_area / ex_area)
MinCounts(min_area, ex_area) == (min_area + ex_area - 1) \div ex_area

\* the labels of the features in place of their counts
RegionLabels(u) == From1(u.l)

\* c[1:]: the counts of the features
RegionCounts(u) == From1(u.c)

\* a cell counted as foreground whenever it is not 0
NonZero(x) == x # Zero

\* mask > 0: the cells given to the labelling as foreground
Positive(x) == RLt(Zero, x)

AreaFilter(mask, min_area, kernel) ==
    LET s      == FILTER_KERNELS[kernel]
        labels == NdLabel([mask EXCEPT !.at = [p \in Dom(mask) |-> Positive(mask.at[p])]], s)
        u      == NpUnique(labels)
        min_counts == MinCounts(min_area, ExArea)
        l1     == From1(u.l)
        c1     == RegionCounts(u)
        bad_labels == {l1[i] : i \in {j \in 1 .. Len(c1) : c1[j] < min_counts}}
    IN  [mask EXCEPT !.at = [p \in Dom(mask) |->
                                IF labels[p] \in bad_labels THEN Zero ELSE mask.at[p]]]

(***************************************************************************)
(* Inputs of the area filter: masks of every shape up to FRows x FCols,    *)
(* numbered in base 4 over the cell values 0, 1/2, 1, -1/2.                *)
(***************************************************************************)
FRows == 2

FCols == 3

MaxMaskCode == 4095

Digit(code, i, base) == (code \div Pow(base, i)) % base

CellValues == <<Zero, Half, One, Rat(-1, 2)>>

MaskOf(nr, nc, code) ==
    [nr |-> nr, nc |-> nc,
     at |-> [p \in Cells(nr, nc) |-> CellValues[1 + Digit(code, RasterIdx(p, nc), 4)]]]

\* minimum areas 0.005, 0.01, 0.02 km2: 1, 2, 3 pixels of 0.0081 km2
MinAreas == {50, 100, 200}

Kernels == {"queen", "rook"}

InitFilter ==
    /\ \E nr \in 1 .. FRows, nc \in 1 .. FCols, code \in 0 .. MaxMaskCode,
          a \in MinAreas, k \in Kernels :
          inp = [op |-> "area_filter", mask |-> MaskOf(nr, nc, code),
                 min_area |-> a, kernel |-> k]
    /\ out = None
    /\ NoEngine

AreaFilterCall ==
    /\ inp.op = "area_filter"
    /\ out = None
    /\ out' = AreaFilter(inp.mask, inp.min_area, inp.kernel)
    /\ UNCHANGED inp
    /\ UNCHANGED engineVars

\* _area_filter is called again on the mask it returned, with the same
\* minimum area and kernel
AreaFilterAgain ==
    /\ inp.op = "area_filter"
    /\ out # None
    /\ inp' = [op |-> "area_filter_again", mask |-> out, unfiltered |-> inp.mask,
               min_area |-> inp.min_area, kernel |-> inp.kernel]
    /\ out' = AreaFilter(out, inp.min_area, inp.kernel)
    /\ UNCHANGED engineVars

NextFilter == AreaFilterCall \/ AreaFilterAgain

SpecFilter == InitFilter /\ [][NextFilter]_vars

\* the features of strictly positive cells of a mask, as sets of cells
Regions(mask, kernel) ==
    LET fg == {p \in Dom(mask) : RLt(Zero, mask.at[p])}
    IN  {Feature(p, fg, FILTER_KERNELS[kernel]) : p \in fg}

Filtered == inp.op = "area_filter" /\ out # None

\* C1: after the area filter every cell of a region of positive cells with
\* fewer than N = ceil(min_area / pixel_area) cells is 0 and every cell of a
\* region with at least N cells has its input value, for every mask
\* (also one without a background cell), kernel and minimum area.
C1_RemovalRule ==
    Filtered =>
        \A f \in Regions(inp.mask, inp.kernel) : \A p \in f :
            IF Cardinality(f) < MinCounts(inp.min_area, ExArea)
            THEN out.at[p] = Zero
            ELSE out.at[p] = inp.mask.at[p]

\* the rule of C1 on the masks that hold a background cell
C1_RemovalRuleWithBackground ==
    (Filtered /\ \E p \in Dom(inp.mask) : ~RLt(Zero, inp.mask.at[p])) => C1_RemovalRule

\* C13: the area filter applied to a mask it has already filtered, with the
\* same kernel and minimum area, returns that mask unchanged.
C13_FilterIdempotent == inp.op = "area_filter_again" => out = inp.mask

\* the first pass removed a region and kept another, and the mask was
\* filtered again
C13_Witness ==
    /\ inp.op = "area_filter_again"
    /\ inp.mask # inp.unfiltered
    /\ \E p \in Dom(out) : RLt(Zero, out.at[p])

\* C29: each cell of the filtered mask is 0 or its input value, a cell that
\* is not positive is unchanged, no cell is raised, and the cells of one
\* region of positive cells are all kept or all set to 0.
C29_FilterFrame ==
    Filtered =>
        /\ out.nr = inp.mask.nr /\ out.nc = inp.mask.nc
        /\ \A p \in Dom(inp.mask) :
               /\ out.at[p] \in {Zero, inp.mask.at[p]}
               /\ ~RLt(Zero, inp.mask.at[p]) => out.at[p] = inp.mask.at[p]
               /\ RLeq(out.at[p], inp.mask.at[p])
        /\ \A f \in Regions(inp.mask, inp.kernel) :
               \/ \A p \in f : out.at[p] = inp.mask.at[p]
               \/ \A p \in f : out.at[p] = Zero

\* the filter removed one region and kept another of a mask that holds a
\* negative cell
C29_Witness ==
    /\ Filtered
    /\ \E p \in Dom(inp.mask) : RLt(inp.mask.at[p], Zero)
    /\ \E f, g \in Regions(inp.mask, inp.kernel) :
           /\ \A p \in f : out.at[p] = Zero
           /\ \A p \in g : out.at[p] = inp.mask.at[p]

(***************************************************************************)
(* Windows (ds_slice).  A pair of slices, or anything else (here the       *)
(* Ellipsis of the mask property).                                         *)
(***************************************************************************)
Slice(start, stop) == [start |-> start, stop |-> stop]

\* slice(None)
SliceAll == [all |-> TRUE]

IsAll(sl) == "all" \in DOMAIN sl

Slices(y, x) == [kind |-> "slices", y |-> y, x |-> x]

Ellipsis == [kind |-> "ellipsis"]

\* _increase_mask_slice without the clamp of the padded stop to the domain
UnclampedIncreaseMaskSlice(ds_slice, n, shape) ==
    IF ds_slice.kind = "slices"
    THEN LET y_slice == ds_slice.y
             x_slice == ds_slice.x
             y_diff == n * Abs(y_slice.stop - y_slice.start)
             x_diff == n * Abs(x_slice.stop - x_slice.start)
             y_new_start == Max2(0, y_slice.start - y_diff)
             x_new_start == Max2(0, x_slice.start - x_diff)
             y_sub_start == IF y_new_start = y_slice.start THEN 0 ELSE n * y_diff
             x_sub_start == IF x_new_start = x_slice.start THEN 0 ELSE n * x_diff
         IN  [new_slice |-> Slices(Slice(y_new_start, y_slice.stop + y_diff),
                                   Slice(x_new_start, x_slice.stop + x_diff)),
              sub_slice |-> <<Slice(y_sub_start, y_sub_start + y_diff),
                              Slice(x_sub_start, x_sub_start + x_diff)>>]
    ELSE [new_slice |-> ds_slice, sub_slice |-> <<SliceAll, SliceAll>>]

IncreaseMaskSlice(ds_slice, n, shape) ==
    IF ds_slice.kind = "slices"
    THEN LET y_slice == ds_slice.y
             x_slice == ds_slice.x
             y_diff == n * Abs(y_slice.stop - y_slice.start)
             x_diff == n * Abs(x_slice.stop - x_slice.start)
             y_new_start == Max2(0, y_slice.start - y_diff)
             x_new_start == Max2(0, x_slice.start - x_diff)
             y_new_stop == Min2(shape[1], y_slice.stop + y_diff)
             x_new_stop == Min2(shape[2], x_slice.stop + x_diff)
             y_sub_start == IF y_new_start = y_slice.start THEN 0 ELSE n * y_diff
             x_sub_start == IF x_new_start = x_slice.start THEN 0 ELSE n * x_diff
             y_sub_stop == y_sub_start + y_diff
             x_sub_stop == x_sub_start + x_diff
         IN  [new_slice |-> Slices(Slice(y_new_start, y_new_stop),
                                   Slice(x_new_start, x_new_stop)),
              sub_slice |-> <<Slice(y_sub_start, y_sub_stop),
                              Slice(x_sub_start, x_sub_stop)>>]
    ELSE [new_slice |-> ds_slice, sub_slice |-> <<SliceAll, SliceAll>>]

\* mask[sub_slice]
CropBy(a, sub_slice) ==
    LET y == sub_slice[1]
        x == sub_slice[2]
    IN  Crop(a, IF IsAll(y) THEN 0 ELSE y.start, IF IsAll(y) THEN a.nr ELSE y.stop,
                IF IsAll(x) THEN 0 ELSE x.start, IF IsAll(x) THEN a.nc ELSE x.stop)

(***************************************************************************)
(* Inputs of the window expander: every domain shape up to MaxExtent on    *)
(* each axis and every pair of ranges inside it.                           *)
(***************************************************************************)
MaxExtent == 4

MaxFactor == 2

RangesIn(d) == {sl \in [start : 0 .. d, stop : 0 .. d] : sl.start <= sl.stop}

InitSlice ==
    /\ \E d0 \in 1 .. MaxExtent, d1 \in 1 .. MaxExtent, n \in 1 .. MaxFactor :
          \E y \in RangesIn(d0), x \in RangesIn(d1) :
              inp = [op |-> "increase_mask_slice", shape |-> <<d0, d1>>,
                     ds_slice |-> Slices(y, x), n |-> n]
    /\ out = None
    /\ NoEngine

IncreaseMaskSliceCall ==
    /\ inp.op = "increase_mask_slice"
    /\ out = None
    /\ out' = IncreaseMaskSlice(inp.ds_slice, inp.n, inp.shape)
    /\ UNCHANGED inp
    /\ UNCHANGED engineVars

NextSlice == IncreaseMaskSliceCall

SpecSlice == InitSlice /\ [][NextSlice]_vars

Expanded == inp.op = "increase_mask_slice" /\ out # None

\* the array over the window y, x of the domain whose cells are their own
\* domain coordinates
CoordsOf(y, x) ==
    [nr |-> y.stop - y.start, nc |-> x.stop - x.start,
     at |-> [p \in Cells(y.stop - y.start, x.stop - x.start) |->
                <<y.start + p[1], x.start + p[2]>>]]

\* C2: with factor 1 the recovery offset is, on each axis, the requested
\* start minus the padded start, and cropping an array over the padded
\* window with the recovery slice yields exactly the requested cells.
C2_ExactCropRecovery ==
    (Expanded /\ inp.n = 1) =>
        /\ out.sub_slice[1].start = inp.ds_slice.y.start - out.new_slice.y.start
        /\ out.sub_slice[2].start = inp.ds_slice.x.start - out.new_slice.x.start
        /\ CropBy(CoordsOf(out.new_slice.y, out.new_slice.x), out.sub_slice)
               = CoordsOf(inp.ds_slice.y, inp.ds_slice.x)

\* a range whose padding the lower edge cuts only partly
PartlyClamped(sl) == 0 < sl.start /\ sl.start < sl.stop - sl.start

\* the recovery of C2 on the windows no axis of which is partly clamped
C2_ExactUnlessPartlyClamped ==
    (Expanded /\ ~PartlyClamped(inp.ds_slice.y) /\ ~PartlyClamped(inp.ds_slice.x))
        => C2_ExactCropRecovery

\* the range sl of an axis of extent D padded by n extents on each side and
\* clamped to the axis
PaddedRange(sl, n, D) ==
    Slice(Max2(0, sl.start - n * (sl.stop - sl.start)),
          Min2(D, sl.stop + n * (sl.stop - sl.start)))

\* the range inner lies inside the range outer
Within(inner, outer) == outer.start <= inner.start /\ inner.stop <= outer.stop

\* C25: on each axis the padded range is max(0, start - n * extent) :
\* min(D, stop + n * extent); it contains the requested range and lies
\* within the domain.
C25_PaddedWindowBounds ==
    Expanded =>
        /\ out.new_slice.y = PaddedRange(inp.ds_slice.y, inp.n, inp.shape[1])
        /\ out.new_slice.x = PaddedRange(inp.ds_slice.x, inp.n, inp.shape[2])
        /\ Within(inp.ds_slice.y, out.new_slice.y)
        /\ Within(inp.ds_slice.x, out.new_slice.x)
        /\ Within(out.new_slice.y, Slice(0, inp.shape[1]))
        /\ Within(out.new_slice.x, Slice(0, inp.shape[2]))

\* a window was padded with factor 1, its rows clamped at the lower edge of
\* the domain and its columns at the upper edge
C25_Witness ==
    /\ Expanded
    /\ inp.n = 1
    /\ inp.ds_slice.y.start > 0
    /\ inp.ds_slice.y.start < inp.ds_slice.y.stop - inp.ds_slice.y.start
    /\ out.new_slice.y.start = 0
    /\ inp.ds_slice.x.stop < inp.shape[2]
    /\ inp.ds_slice.x.start < inp.ds_slice.x.stop
    /\ out.new_slice.x.stop = inp.shape[2]
    /\ out.new_slice.x.stop < inp.ds_slice.x.stop + (inp.ds_slice.x.stop - inp.ds_slice.x.start)

(***************************************************************************)
(* LayerMask.  Optional arguments are None or Some(v); a raised exception  *)
(* is the value Raise(class).                                              *)
(***************************************************************************)
Some(v) == [val |-> v]

Raise(e) == [exc |-> e]

Raised(x) == "exc" \in DOMAIN x

\* the loop of _check_mask_type over masks.items(), in insertion order
RECURSIVE CheckMaskLoop(_, _, _)
CheckMaskLoop(keys, masks, mask) ==
    IF keys = <<>> THEN [mask |-> mask]
    ELSE IF masks[Head(keys)]
         THEN IF mask = "None"
              THEN CheckMaskLoop(Tail(keys), masks, Head(keys))
              ELSE Raise("RuntimeError")
         ELSE CheckMaskLoop(Tail(keys), masks, mask)

CheckMaskType(self) ==
    IF ~self.as_weights
    THEN CheckMaskLoop(<<"range", "exclude", "include">>,
                       [range   |-> \E i \in 1 .. 2 : self.inclusion_range[i] # None,
                        exclude |-> self.exclude_values # None,
                        include |-> self.include_values # None],
                       "None")
    ELSE [mask |-> "None"]

\* LayerMask.__init__: the policy, or the exception raised
LayerMask(layer, inclusion_range, exclude_values, include_values, use_as_weights, weight) ==
    LET self == [layer |-> layer, inclusion_range |-> inclusion_range,
                 exclude_values |-> exclude_values, include_values |-> include_values,
                 as_weights |-> use_as_weights, weight |-> weight]
    IN  IF RLt(One, weight) \/ RLt(weight, Zero)
        THEN Raise("ValueError")
        ELSE LET mt == CheckMaskType(self)
             IN  IF Raised(mt) THEN mt
                 ELSE [layer |-> layer, inclusion_range |-> inclusion_range,
                       exclude_values |-> exclude_values,
                       include_values |-> include_values,
                       as_weights |-> use_as_weights, weight |-> weight,
                       mask_type |-> mt.mask]

min_value(self) == self.inclusion_range[1]

max_value(self) == self.inclusion_range[2]

\* _range_mask with the bounds left out of the range
StrictRangeMask(self, v) ==
    LET m1 == IF min_value(self) # None THEN v > min_value(self).val ELSE TRUE
    IN  IF max_value(self) # None THEN m1 /\ v < max_value(self).val ELSE m1

\* _range_mask on one value: mask = True; mask = data >= min; mask *= data <= max
RangeMask(self, v) ==
    LET m1 == IF min_value(self) # None THEN v >= min_value(self).val ELSE TRUE
    IN  IF max_value(self) # None THEN m1 /\ v <= max_value(self).val ELSE m1

\* _value_mask without the negation
UnnegatedValueMask(v, values, include) == v \in values

\* _value_mask on one value: np.isin, negated when not include
ValueMask(v, values, include) ==
    LET mask == v \in values IN IF ~include THEN ~mask ELSE mask

ExclusionMaskOf(self, v) == ValueMask(v, self.exclude_values.val, FALSE)

InclusionMaskOf(self, v) == ValueMask(v, self.include_values.val, TRUE)

\* a boolean mask value .astype('float16')
BoolAsFloat(b) == IF b THEN One ELSE Zero

\* a raw value cast to a truth value
NumAsBool(v) == IF v # 0 THEN One ELSE Zero

\* a raw value .astype('float16')
NumAsFloat(v) == Fl16(Rat(v, 1))

\* _apply_mask without the call of the mask function
RawApplyMask(self, data) ==
    [data EXCEPT !.at = [p \in Dom(data) |-> Mul16(NumAsFloat(data.at[p]), Fl16(self.weight))]]

\* LayerMask._apply_mask (layer[data]): the weights array, or the exception;
\* the product of a float16 array and the weight is a float16 array
ApplyMask(self, data) ==
    IF ~self.as_weights /\ self.mask_type \notin {"range", "exclude", "include"}
    THEN Raise("ValueError")
    ELSE [data EXCEPT !.at = [p \in Dom(data) |->
            LET v == data.at[p]
                d == IF ~self.as_weights
                     THEN BoolAsFloat(
                          CASE self.mask_type = "range"   -> RangeMask(self, v)
                            [] self.mask_type = "exclude" -> ExclusionMaskOf(self, v)
                            [] self.mask_type = "include" -> InclusionMaskOf(self, v))
                     ELSE NumAsFloat(v)
            IN  Mul16(d, Fl16(self.weight))]]

(***************************************************************************)
(* Inputs of LayerMask: constructor arguments and a row of raw values.     *)
(***************************************************************************)
MaxRaw == 2

PCols == 2

Bounds == {None, Some(0), Some(1), Some(2)}

\* inclusion_range=(None, None), the default
NoRange == <<None, None>>

ValueSets == {None, Some({1}), Some({0, 2})}

Weights == {Rat(-1, 2), Zero, Rat(3, 10), Half, One, Rat(3, 2)}

RawRows(nc) == {[nr |-> 1, nc |-> nc, at |-> f] : f \in [Cells(1, nc) -> 0 .. MaxRaw]}

InitPolicy ==
    /\ \E lo \in Bounds, hi \in Bounds, ex \in ValueSets, inc \in ValueSets,
          asw \in BOOLEAN, w \in Weights, data \in RawRows(PCols) :
          inp = [op |-> "LayerMask", inclusion_range |-> <<lo, hi>>,
                 exclude_values |-> ex, include_values |-> inc,
                 use_as_weights |-> asw, weight |-> w, data |-> data]
    /\ out = None
    /\ NoEngine

\* LayerMask(...) is evaluated
LayerMaskCall ==
    /\ inp.op = "LayerMask"
    /\ out = None
    /\ out' = [policy |-> LayerMask("a", inp.inclusion_range, inp.exclude_values,
                                    inp.include_values, inp.use_as_weights, inp.weight),
               weights |-> None]
    /\ UNCHANGED inp
    /\ UNCHANGED engineVars

\* policy[data] is evaluated on a policy that was constructed
ApplyMaskCall ==
    /\ inp.op = "LayerMask"
    /\ out # None
    /\ ~Raised(out.policy)
    /\ out.weights = None
    /\ out' = [out EXCEPT !.weights = ApplyMask(out.policy, inp.data)]
    /\ UNCHANGED inp
    /\ UNCHANGED engineVars

NextPolicy == LayerMaskCall \/ ApplyMaskCall

SpecPolicy == InitPolicy /\ [][NextPolicy]_vars

Constructed == inp.op = "LayerMask" /\ out # None

\* the number of criteria among {range with a bound, exclude set,
\* include set} the constructor call supplies
Supplied ==
    Cardinality({k \in {"range", "exclude", "include"} :
        CASE k = "range"   -> inp.inclusion_range[1] # None \/ inp.inclusion_range[2] # None
          [] k = "exclude" -> inp.exclude_values # None
          [] k = "include" -> inp.include_values # None})

\* C5: constructing a policy with use_as_weights false succeeds if and only
\* if the weight is in [0, 1] and exactly one of {range with a bound,
\* include set, exclude set} is supplied.
C5_ConstructionValidity ==
    (Constructed /\ ~inp.use_as_weights) =>
        (~Raised(out.policy) <=>
            (RLeq(Zero, inp.weight) /\ RLeq(inp.weight, One) /\ Supplied = 1))

\* the validity rule of C5 with "at most one" in place of "exactly one"
C5_ConstructionValidityAtMostOne ==
    (Constructed /\ ~inp.use_as_weights) =>
        (~Raised(out.policy) <=>
            (RLeq(Zero, inp.weight) /\ RLeq(inp.weight, One) /\ Supplied <= 1))

\* C6: constructing a policy with both include_values and exclude_values
\* set raises, whatever the other arguments are.
C6_IncludeAndExcludeRaises ==
    (Constructed /\ inp.include_values # None /\ inp.exclude_values # None)
        => Raised(out.policy)

\* the rule of C6 on the calls with use_as_weights false
C6_IncludeAndExcludeRaisesUnlessWeights ==
    (Constructed /\ ~inp.use_as_weights
       /\ inp.include_values # None /\ inp.exclude_values # None)
        => Raised(out.policy)

\* a policy was constructed and applied to the row of raw values
Applied ==
    /\ inp.op = "LayerMask"
    /\ out # None
    /\ ~Raised(out.policy)
    /\ out.weights # None
    /\ ~Raised(out.weights)

AppliedAs(type) == Applied /\ ~inp.use_as_weights /\ out.policy.mask_type = type

\* v is within the bounds given to the constructor, both inclusive
InRange(v) ==
    /\ inp.inclusion_range[1] = None \/ v >= inp.inclusion_range[1].val
    /\ inp.inclusion_range[2] = None \/ v <= inp.inclusion_range[2].val

\* C17: a Range policy with weight w yields w at the values within its
\* bounds (each bound inclusive, an absent bound not tested) and 0 at the
\* others.
C17_RangePolicy ==
    AppliedAs("range") =>
        \A p \in Dom(inp.data) :
            out.weights.at[p] = IF InRange(inp.data.at[p]) THEN inp.weight ELSE Zero

\* C17 as amended: the value yielded within the bounds is w rounded to
\* float16, the element type of the mask.
C17_RangePolicyFloat16 ==
    AppliedAs("range") =>
        \A p \in Dom(inp.data) :
            out.weights.at[p] = IF InRange(inp.data.at[p]) THEN Fl16(inp.weight) ELSE Zero

\* a Range policy with both bounds and weight 3/10 was applied to a row
\* with a value on a bound and a value outside the bounds
C17_Witness ==
    /\ AppliedAs("range")
    /\ inp.weight = Rat(3, 10)
    /\ inp.inclusion_range[1] # None /\ inp.inclusion_range[2] # None
    /\ \E p \in Dom(inp.data) : inp.data.at[p] = inp.inclusion_range[2].val
                                  /\ InRange(inp.data.at[p])
    /\ \E p \in Dom(inp.data) : ~InRange(inp.data.at[p])

\* the output of the policy of the same weight with the set S as its
\* include set (include TRUE) or as its exclude set (include FALSE)
ValueSetOutput(S, include) ==
    ApplyMask(LayerMask("a", NoRange, IF include THEN None ELSE Some(S),
                        IF include THEN Some(S) ELSE None, FALSE, inp.weight),
              inp.data)

\* the set given to the constructor of the value-set policy
GivenSet == IF out.policy.mask_type = "include" THEN inp.include_values.val
            ELSE inp.exclude_values.val

ValueSetApplied == AppliedAs("include") \/ AppliedAs("exclude")

\* C18: IncludeValues{S} yields w where the value is in S and 0 elsewhere,
\* ExcludeValues{S} yields w where the value is not in S and 0 elsewhere,
\* and for the same S and w exactly one of the two outputs is w at every
\* cell.
C18_ValueSetComplements ==
    ValueSetApplied =>
        \A p \in Dom(inp.data) :
            LET v   == inp.data.at[p]
                inc == ValueSetOutput(GivenSet, TRUE).at[p]
                exc == ValueSetOutput(GivenSet, FALSE).at[p]
            IN  /\ out.weights.at[p] = IF out.policy.mask_type = "include" THEN inc ELSE exc
                /\ inc = IF v \in GivenSet THEN inp.weight ELSE Zero
                /\ exc = IF v \notin GivenSet THEN inp.weight ELSE Zero
                /\ (inc = inp.weight) # (exc = inp.weight)

\* C18 as amended: the value yielded is w rounded to float16, and at every
\* cell one of the two outputs is that value and the other is 0.
C18_ValueSetComplementsFloat16 ==
    ValueSetApplied =>
        \A p \in Dom(inp.data) :
            LET v   == inp.data.at[p]
                inc == ValueSetOutput(GivenSet, TRUE).at[p]
                exc == ValueSetOutput(GivenSet, FALSE).at[p]
            IN  /\ out.weights.at[p] = IF out.policy.mask_type = "include" THEN inc ELSE exc
                /\ inc = IF v \in GivenSet THEN Fl16(inp.weight) ELSE Zero
                /\ exc = IF v \notin GivenSet THEN Fl16(inp.weight) ELSE Zero
                /\ {inc, exc} = {Fl16(inp.weight), Zero}

\* an ExcludeValues policy with weight 3/10 was applied to a row with a
\* value in its set and a value outside it
C18_Witness ==
    /\ AppliedAs("exclude")
    /\ inp.weight = Rat(3, 10)
    /\ \E p \in Dom(inp.data) : inp.data.at[p] \in GivenSet
    /\ \E p \in Dom(inp.data) : inp.data.at[p] \notin GivenSet

\* C19: a policy constructed with use_as_weights true yields v * w at a raw
\* value v, with no boolean test, whatever bounds and sets were supplied.
C19_RawWeight ==
    (Applied /\ inp.use_as_weights) =>
        \A p \in Dom(inp.data) :
            out.weights.at[p] = RMul(Rat(inp.data.at[p], 1), inp.weight)

\* C19 as amended: the value yielded is the float16 product of v and w,
\* each rounded to float16.
C19_RawWeightFloat16 ==
    (Applied /\ inp.use_as_weights) =>
        \A p \in Dom(inp.data) :
            out.weights.at[p] =
                Fl16(RMul(Fl16(Rat(inp.data.at[p], 1)), Fl16(inp.weight)))

\* a policy with use_as_weights true, weight 3/10, a bound and an include
\* set was applied to a row holding the raw value 2
C19_Witness ==
    /\ Applied
    /\ inp.use_as_weights
    /\ inp.weight = Rat(3, 10)
    /\ inp.inclusion_range[2] # None
    /\ inp.include_values # None
    /\ \E p \in Dom(inp.data) : inp.data.at[p] = 2

BooleanApplied == AppliedAs("range") \/ AppliedAs("include") \/ AppliedAs("exclude")

\* C20: every output value of a Range, IncludeValues or ExcludeValues
\* policy with weight w is 0 or w.
C20_BooleanOutputs ==
    BooleanApplied =>
        \A p \in Dom(inp.data) : out.weights.at[p] \in {Zero, inp.weight}

\* C20 as amended: every output value is 0 or w rounded to float16.
C20_BooleanOutputsFloat16 ==
    BooleanApplied =>
        \A p \in Dom(inp.data) : out.weights.at[p] \in {Zero, Fl16(inp.weight)}

\* a boolean policy with weight 3/10 was applied and yielded both of its
\* output values
C20_Witness ==
    /\ BooleanApplied
    /\ inp.weight = Rat(3, 10)
    /\ {out.weights.at[p] : p \in Dom(inp.data)} = {Zero, Fl16(Rat(3, 10))}

(***************************************************************************)
(* The raster layer store behind ExclusionLayers: a catalogue of layer     *)
(* names, the domain shape and one raster of raw values per layer; the     *)
(* layers in broken cannot be read.                                        *)
(***************************************************************************)
\* excl_h5.layers
StoreLayers(st) == DOMAIN st.data

\* excl_h5.shape
StoreShape(st) == st.shape

\* excl_h5[(layer, ) + ds_slice]: the raw values of the window, or the
\* store's error
StoreRead(st, layer, ds_slice) ==
    IF layer \in st.broken THEN Raise("StoreAccessError")
    ELSE IF ds_slice.kind = "slices"
         THEN Crop(st.data[layer], ds_slice.y.start, ds_slice.y.stop,
                   ds_slice.x.start, ds_slice.x.stop)
         ELSE st.data[layer]

(***************************************************************************)
(* ExclusionMask: construction and add_layer.  The object is               *)
(* [layers, excl_layers, min_area, kernel]; layers is the OrderedDict as   *)
(* the sequence of its values in insertion order.                          *)
(***************************************************************************)
\* self.layer_names
layer_names(self) == {self.layers[i].layer : i \in 1 .. Len(self.layers)}

\* the policy appended, as to a list
AppendLayer(layers, layer) == Append(layers, layer)

\* self._layers[layer_name] = layer: a present key keeps its position
SetLayer(layers, layer) ==
    IF \E i \in 1 .. Len(layers) : layers[i].layer = layer.layer
    THEN [i \in 1 .. Len(layers) |->
             IF layers[i].layer = layer.layer THEN layer ELSE layers[i]]
    ELSE Append(layers, layer)

\* the excl_layers property: the catalogue is fetched when it is not cached
ExclLayers(self, st) ==
    IF self.excl_layers = None THEN Some(StoreLayers(st)) ELSE self.excl_layers

\* add_layer looking the catalogue up at every call, keeping no copy
UncachedAddLayer(self, st, layer, replace) ==
    LET stored == [self EXCEPT !.layers = SetLayer(@, layer)]
    IN  IF layer.layer \notin StoreLayers(st)
        THEN [self |-> self, exc |-> "ValueError", warned |-> FALSE, fetched |-> TRUE]
        ELSE IF layer.layer \in layer_names(self)
             THEN IF replace
                  THEN [self |-> stored, exc |-> "None", warned |-> TRUE, fetched |-> TRUE]
                  ELSE [self |-> self, exc |-> "RuntimeError", warned |-> FALSE,
                        fetched |-> TRUE]
             ELSE [self |-> stored, exc |-> "None", warned |-> FALSE, fetched |-> TRUE]

\* add_layer storing the policy before it looks for a duplicate
StoreThenCheckAddLayer(self, st, layer, replace) ==
    LET cached  == [self EXCEPT !.excl_layers = ExclLayers(self, st)]
        fetched == self.excl_layers = None
        stored  == [cached EXCEPT !.layers = SetLayer(@, layer)]
    IN  IF layer.layer \notin cached.excl_layers.val
        THEN [self |-> cached, exc |-> "ValueError", warned |-> FALSE, fetched |-> fetched]
        ELSE IF layer.layer \in layer_names(cached)
             THEN IF replace
                  THEN [self |-> stored, exc |-> "None", warned |-> TRUE, fetched |-> fetched]
                  ELSE [self |-> stored, exc |-> "RuntimeError", warned |-> FALSE,
                        fetched |-> fetched]
             ELSE [self |-> stored, exc |-> "None", warned |-> FALSE, fetched |-> fetched]

\* add_layer: the object afterwards, the exception raised ("None" when
\* none), whether a warning was given, whether the catalogue was fetched
AddLayer(self, st, layer, replace) ==
    LET cached  == [self EXCEPT !.excl_layers = ExclLayers(self, st)]
        fetched == self.excl_layers = None
    IN  IF layer.layer \notin cached.excl_layers.val
        THEN [self |-> cached, exc |-> "ValueError", warned |-> FALSE, fetched |-> fetched]
        ELSE IF layer.layer \in layer_names(cached)
             THEN IF replace
                  THEN [self |-> [cached EXCEPT !.layers = SetLayer(@, layer)],
                        exc |-> "None", warned |-> TRUE, fetched |-> fetched]
                  ELSE [self |-> cached, exc |-> "RuntimeError", warned |-> FALSE,
                        fetched |-> fetched]
             ELSE [self |-> [cached EXCEPT !.layers = SetLayer(@, layer)],
                   exc |-> "None", warned |-> FALSE, fetched |-> fetched]

\* the loop of __init__ over layers: stops at the first add_layer that raises
RECURSIVE AddLayers(_, _, _, _)
AddLayers(self, st, layers, fetches) ==
    IF layers = <<>> THEN [self |-> self, exc |-> "None", fetches |-> fetches]
    ELSE LET r == AddLayer(self, st, Head(layers), FALSE)
             f == fetches + (IF r.fetched THEN 1 ELSE 0)
         IN  IF r.exc # "None" THEN [self |-> r.self, exc |-> r.exc, fetches |-> f]
             ELSE AddLayers(r.self, st, Tail(layers), f)

\* __init__ looking at the kernel only when a minimum area is given
MinAreaKernelNewExclusionMask(st, layers, min_area, kernel) ==
    LET self0 == [layers |-> <<>>, excl_layers |-> None, min_area |-> None, kernel |-> "None"]
        r     == AddLayers(self0, st, layers, 0)
    IN  IF r.exc # "None" THEN [self |-> Raise(r.exc), fetches |-> r.fetches]
        ELSE IF kernel \in {"queen", "rook"} \/ min_area = None
             THEN [self |-> [r.self EXCEPT !.min_area = min_area, !.kernel = kernel],
                   fetches |-> r.fetches]
             ELSE [self |-> Raise("ValueError"), fetches |-> r.fetches]

\* ExclusionMask.__init__ after the handle is opened: the object, or the
\* exception raised
NewExclusionMask(st, layers, min_area, kernel) ==
    LET self0 == [layers |-> <<>>, excl_layers |-> None, min_area |-> None, kernel |-> "None"]
        r     == AddLayers(self0, st, layers, 0)
    IN  IF r.exc # "None" THEN [self |-> Raise(r.exc), fetches |-> r.fetches]
        ELSE IF kernel \in {"queen", "rook"}
             THEN [self |-> [r.self EXCEPT !.min_area = min_area, !.kernel = kernel],
                   fetches |-> r.fetches]
             ELSE [self |-> Raise("ValueError"), fetches |-> r.fetches]

(***************************************************************************)
(* _generate_mask, one step at a time.  A call's local variables are       *)
(* [pc, ds, ds_slice, sub_slice, i, raw, mask, result]: ds is the window   *)
(* asked for, i the position of the layer loop, raw the values just read.  *)
(* trace lists what the call has done so far: its store reads, folds,      *)
(* filter and crop, in the order they happened.                            *)
(***************************************************************************)
IdleCall ==
    [pc |-> "idle", ds |-> None, ds_slice |-> None, sub_slice |-> None,
     i |-> 0, raw |-> None, mask |-> None, result |-> None, trace |-> <<>>]

\* the call has returned result, or raised it
Done(call, result) ==
    [IdleCall EXCEPT !.pc = "done", !.ds = call.ds, !.result = result,
                     !.trace = call.trace]

\* the call with the event ev added to what it has done
Did(call, ev) == [call EXCEPT !.trace = Append(@, ev)]

\* the window padded whether or not a minimum area is configured
PaddingBeginStep(ds, self, st) ==
    LET e == IncreaseMaskSlice(ds, 1, StoreShape(st))
    IN  [IdleCall EXCEPT !.pc = "loop", !.ds = ds, !.ds_slice = e.new_slice,
                         !.sub_slice = e.sub_slice, !.i = 1]

\* lines 556-561: mask = None and, with a minimum area, the padded window
BeginStep(ds, self, st) ==
    LET e == IF self.min_area # None
             THEN IncreaseMaskSlice(ds, 1, StoreShape(st))
             ELSE [new_slice |-> ds, sub_slice |-> None]
    IN  [IdleCall EXCEPT !.pc = "loop", !.ds = ds, !.ds_slice = e.new_slice,
                         !.sub_slice = e.sub_slice, !.i = 1]

\* a store read whose failure is passed over: the layer is left out
SkippingReadStep(call, self, st) ==
    LET raw  == StoreRead(st, self.layers[call.i].layer, call.ds_slice)
        read == Did(call, [ev |-> "read", layer |-> self.layers[call.i].layer,
                           window |-> call.ds_slice, ok |-> ~Raised(raw)])
    IN  IF Raised(raw) THEN [read EXCEPT !.i = @ + 1]
        ELSE [read EXCEPT !.pc = "apply", !.raw = raw]

\* line 565, self.excl_h5[layer_slice]: the store read of layer i
ReadStep(call, self, st) ==
    LET raw  == StoreRead(st, self.layers[call.i].layer, call.ds_slice)
        read == Did(call, [ev |-> "read", layer |-> self.layers[call.i].layer,
                           window |-> call.ds_slice, ok |-> ~Raised(raw)])
    IN  IF Raised(raw) THEN Done(read, raw)
        ELSE [read EXCEPT !.pc = "apply", !.raw = raw]

\* the running product as one attribute shared by every call
SharedAccumulator(cs, c) == cs[1].mask

\* the running product the call of caller c folds into: its local mask
Accumulator(cs, c) == cs[c].mask

\* lines 565-569, layer[...] and mask *= layer_mask
FoldStep(cs, c, self) ==
    LET call == cs[c]
        layer_mask == ApplyMask(self.layers[call.i], call.raw)
        mask == IF Raised(layer_mask) THEN layer_mask
                ELSE IF Accumulator(cs, c) = None THEN layer_mask
                ELSE ArrMul(Accumulator(cs, c), layer_mask)
    IN  IF Raised(mask) THEN Done(call, mask)
        ELSE [Did(call, [ev |-> "fold", layer |-> self.layers[call.i].layer])
                 EXCEPT !.pc = "loop", !.raw = None, !.i = @ + 1, !.mask = mask]

\* the crop done before the area filter
CropFirstFilterStep(call, self) ==
    IF call.mask = None THEN Done(call, Raise("TypeError"))
    ELSE LET cropped == CropBy(call.mask, call.sub_slice)
         IN  [Did(call, [ev |-> "filter", nr |-> cropped.nr, nc |-> cropped.nc])
                 EXCEPT !.pc = "crop",
                        !.mask = AreaFilter(cropped, self.min_area.val, self.kernel)]

\* lines 571-573: the area filter over the product (None > 0 is a TypeError)
FilterStep(call, self) ==
    IF call.mask = None THEN Done(call, Raise("TypeError"))
    ELSE [Did(call, [ev |-> "filter", nr |-> call.mask.nr, nc |-> call.mask.nc])
             EXCEPT !.pc = "crop",
                    !.mask = AreaFilter(call.mask, self.min_area.val, self.kernel)]

\* line 574: mask = mask[sub_slice]
CropStep(call) ==
    [Did(call, [ev |-> "crop"])
        EXCEPT !.pc = "return", !.mask = CropBy(call.mask, call.sub_slice)]

\* line 576: return mask
ReturnStep(call) == Done(call, call.mask)

AtRead(call, self) == call.pc = "loop" /\ call.i <= Len(self.layers)

AtFilter(call, self) ==
    call.pc = "loop" /\ call.i > Len(self.layers) /\ self.min_area # None

AtReturn(call, self) ==
    \/ call.pc = "return"
    \/ call.pc = "loop" /\ call.i > Len(self.layers) /\ self.min_area = None

\* a whole call run by itself, from its beginning to its return
RECURSIVE RunCall(_, _, _)
RunCall(call, self, st) ==
    IF call.pc = "done" THEN call
    ELSE RunCall(CASE AtRead(call, self)    -> ReadStep(call, self, st)
                   [] call.pc = "apply"     -> FoldStep(<<call>>, 1, self)
                   [] AtFilter(call, self)  -> FilterStep(call, self)
                   [] call.pc = "crop"      -> CropStep(call)
                   [] AtReturn(call, self)  -> ReturnStep(call),
                 self, st)

\* self[ds]: what _generate_mask returns or raises
GenerateMask(self, st, ds) == RunCall(BeginStep(ds, self, st), self, st).result

(***************************************************************************)
(* The engine in use: a store, the policies offered to the engine, the     *)
(* with-block around it and the callers of mask.                           *)
(***************************************************************************)
SRows == 2

SCols == 3

MaxRasterCode == 7

RasterPeriod == 4

NCallers == 2

Callers == 1 .. NCallers

\* raster of 0/1 values repeating the binary digits of code in raster order
RasterOf(code) ==
    [nr |-> SRows, nc |-> SCols,
     at |-> [p \in Cells(SRows, SCols) |->
                Digit(code, RasterIdx(p, SCols) % RasterPeriod, 2)]]

\* raster of 0/1 values in column stripes
Stripes ==
    [nr |-> SRows, nc |-> SCols, at |-> [p \in Cells(SRows, SCols) |-> p[2] % 2]]

StoreOf(code) ==
    [shape |-> <<SRows, SCols>>,
     data |-> [a |-> RasterOf(code), b |-> Stripes],
     broken |-> {}]

Stores == {StoreOf(code) : code \in 0 .. MaxRasterCode}

\* the layers of the engine whose read may fail during one call
BrokenSets(self) == SUBSET (layer_names(self) \cap {"b"})

\* the policies offered: each one a LayerMask that was constructed
Policies ==
    {p \in {LayerMask("a", NoRange, None, Some({1}), FALSE, One),
             LayerMask("a", NoRange, None, None, TRUE, Half),
             LayerMask("a", NoRange, None, None, FALSE, One),
             LayerMask("b", NoRange, Some({1}), None, FALSE, Half),
             LayerMask("z", <<Some(0), None>>, None, None, FALSE, One)} : ~Raised(p)}

MaxLayers == 2

LayerLists == UNION {[1 .. n -> Policies] : n \in 0 .. MaxLayers}

EngineMinAreas == {None, Some(100), Some(200)}

KernelNames == {"queen", "rook", "bishop"}

NonEmpty(sl) == sl.start < sl.stop

\* the windows asked of the engine: every pair of non-empty ranges inside
\* the domain, and the whole domain
Windows ==
    {Slices(y, x) : y \in {sl \in RangesIn(SRows) : NonEmpty(sl)},
                    x \in {sl \in RangesIn(SCols) : NonEmpty(sl)}} \cup {Ellipsis}

NoCalls == [c \in Callers |-> IdleCall]

Init ==
    /\ inp = [op |-> "engine"]
    /\ out = None
    /\ store \in Stores
    /\ handle = "none"
    /\ engine = None
    /\ calls = NoCalls
    /\ scope = [pc |-> "start", exc |-> "None"]
    /\ log = [fetches |-> 0, warned |-> FALSE, overlap |-> FALSE, kernel |-> "None"]

\* with cls(excl_h5, *layers, min_area=..., kernel=...) as f: the handle is
\* opened, then __init__ runs; when it raises, the with-block is never
\* entered and the exception leaves the scope
Construct(layers, min_area, kernel) ==
    /\ scope.pc = "start"
    /\ handle' = "open"
    /\ LET r == NewExclusionMask(store, layers, min_area, kernel)
       IN  /\ log' = [log EXCEPT !.fetches = r.fetches, !.kernel = kernel]
           /\ IF Raised(r.self)
              THEN /\ scope' = [pc |-> "done", exc |-> r.self.exc]
                   /\ UNCHANGED engine
              ELSE /\ scope' = [pc |-> "body", exc |-> "None"]
                   /\ engine' = r.self
    /\ UNCHANGED <<store, calls, pureVars>>

\* f.add_layer(layer, replace) in the body; an exception it raises is
\* pending in the body
AddLayerCall(layer, replace) ==
    /\ scope.pc = "body"
    /\ scope.exc = "None"
    /\ calls = NoCalls
    /\ LET r == AddLayer(engine, store, layer, replace)
       IN  /\ engine' = r.self
           /\ scope' = [scope EXCEPT !.exc = r.exc]
           /\ log' = [log EXCEPT !.fetches = @ + (IF r.fetched THEN 1 ELSE 0),
                                 !.warned = r.warned]
    /\ UNCHANGED <<store, handle, calls, pureVars>>

\* f[ds] in the body, from its beginning to its return, while the store
\* cannot read the layers in fl; an exception it raises is pending in the
\* body
MaskCall(c, ds) ==
    /\ scope.pc = "body"
    /\ scope.exc = "None"
    /\ calls[c].pc = "idle"
    /\ \E fl \in BrokenSets(engine) :
          LET r == RunCall(BeginStep(ds, engine, store), engine,
                           [store EXCEPT !.broken = fl])
          IN  /\ calls' = [calls EXCEPT ![c] = r]
              /\ scope' = [scope EXCEPT !.exc = IF Raised(r.result) THEN r.result.exc
                                                ELSE "None"]
    /\ UNCHANGED <<store, handle, engine, log, pureVars>>

\* the caller is done with the result of its call
Discard(c) ==
    /\ scope.pc = "body"
    /\ scope.exc = "None"
    /\ calls[c].pc = "done"
    /\ calls' = [calls EXCEPT ![c] = IdleCall]
    /\ UNCHANGED <<store, handle, engine, scope, log, pureVars>>

\* the body handles the exception an operation raised and goes on
Catch ==
    /\ scope.pc = "body"
    /\ scope.exc # "None"
    /\ scope' = [scope EXCEPT !.exc = "None"]
    /\ calls' = NoCalls
    /\ UNCHANGED <<store, handle, engine, log, pureVars>>

\* self.excl_h5.close()
Close(h) == "closed"

\* __exit__ at the end of the body: close(); the exception that left the
\* body, if any, is raised again
Exit ==
    /\ scope.pc = "body"
    /\ handle' = Close(handle)
    /\ scope' = [scope EXCEPT !.pc = "done"]
    /\ calls' = NoCalls
    /\ UNCHANGED <<store, engine, log, pureVars>>

\* one caller at a time
Next ==
    \/ \E ls \in LayerLists, a \in EngineMinAreas, k \in KernelNames : Construct(ls, a, k)
    \/ \E p \in Policies, replace \in BOOLEAN : AddLayerCall(p, replace)
    \/ \E ds \in Windows : MaskCall(1, ds)
    \/ Discard(1)
    \/ Catch
    \/ Exit

Spec == Init /\ [][Next]_vars

\* caller c's call has returned a value (not raised)
Returned(c) == calls[c].pc = "done" /\ ~Raised(calls[c].result)

\* the product of all the engine's layers over the whole domain, unfiltered
WholeProduct == GenerateMask([engine EXCEPT !.min_area = None], store, Ellipsis)

\* C3: with a minimum area, mask(window) for a pair of ranges equals the
\* whole-domain product filtered at once and then restricted to the window.
C3_WholeDomainEquivalence ==
    \A c \in Callers :
        (Returned(c) /\ engine.min_area # None /\ calls[c].ds.kind = "slices") =>
            calls[c].result =
                Crop(AreaFilter(WholeProduct, engine.min_area.val, engine.kernel),
                     calls[c].ds.y.start, calls[c].ds.y.stop,
                     calls[c].ds.x.start, calls[c].ds.x.stop)

\* C4: with at least one layer, mask(window) for a pair of ranges has the
\* shape of the window, with or without a minimum area.
C4_MaskShape ==
    \A c \in Callers :
        (Returned(c) /\ Len(engine.layers) >= 1 /\ calls[c].ds.kind = "slices") =>
            /\ calls[c].result.nr = calls[c].ds.y.stop - calls[c].ds.y.start
            /\ calls[c].result.nc = calls[c].ds.x.stop - calls[c].ds.x.start

\* the shape rule of C4 on the engines without a minimum area
C4_MaskShapeWithoutMinArea ==
    (engine # None /\ engine.min_area = None) => C4_MaskShape

\* C7: a mask call on an engine built from constructed policies fails, if
\* it fails, with a store read failure and nothing else.
C7_OnlyStoreFailures ==
    \A c \in Callers :
        (calls[c].pc = "done" /\ Raised(calls[c].result)) =>
            calls[c].result.exc = "StoreAccessError"

\* C8: a mask call that does not raise returns a mask array, never an
\* absent value, whatever the number of layers.
C8_NoDegradedResult ==
    \A c \in Callers : Returned(c) => calls[c].result # None

\* the rule of C8 on the engines with at least one layer
C8_NoDegradedResultWithLayers ==
    (engine # None /\ Len(engine.layers) >= 1) => C8_NoDegradedResult

\* C9: when the scoped use of the engine has ended, normally or with an
\* exception (also one raised by the constructor after the handle was
\* opened), the store handle is not left open.
C9_HandleReleased == scope.pc = "done" => handle # "open"

\* the rule of C9 on the scopes whose constructor returned an engine
C9_HandleReleasedOnceEntered ==
    (scope.pc = "done" /\ engine # None) => handle = "closed"

\* C14: add_layer raises whenever the policy's layer name is not in the
\* store's catalogue, and whenever the name is already configured and
\* replace is false; the configured layers and the policy under every name
\* are then what they were before the call.
C14_FailedAddLayerChangesNothing ==
    [][\A p \in Policies, replace \in BOOLEAN :
          (/\ AddLayerCall(p, replace)
           /\ \/ p.layer \notin StoreLayers(store)
              \/ p.layer \in layer_names(engine) /\ ~replace)
          => (scope'.exc # "None" /\ engine'.layers = engine.layers)]_vars

\* add_layer has just raised for a duplicate name on an engine of two layers
C14_Witness ==
    /\ scope.pc = "body"
    /\ scope.exc = "RuntimeError"
    /\ Len(engine.layers) = 2

\* C15: add_layer with replace true for a name that is configured and in
\* the catalogue does not raise, gives a warning, keeps the number of
\* configured layers and every other layer's policy, and leaves the new
\* policy under that name among the layers mask() goes through.
C15_Replacement ==
    [][\A p \in Policies :
          (/\ AddLayerCall(p, TRUE)
           /\ p.layer \in layer_names(engine)
           /\ p.layer \in StoreLayers(store))
          => /\ scope'.exc = "None"
             /\ log'.warned
             /\ Len(engine'.layers) = Len(engine.layers)
             /\ \A i \in 1 .. Len(engine.layers) :
                    engine'.layers[i] = IF engine.layers[i].layer = p.layer
                                        THEN p ELSE engine.layers[i]]_vars

\* a policy of an engine of two layers has just been replaced with a warning
C15_Witness ==
    /\ scope.pc = "body"
    /\ scope.exc = "None"
    /\ log.warned
    /\ Len(engine.layers) = 2

\* C16: the constructor given a kernel name other than rook or queen
\* raises and yields no engine, with or without a minimum area and whatever
\* the layers.
C16_InvalidKernelRaises ==
    [][\A ls \in LayerLists, a \in EngineMinAreas, k \in KernelNames \ {"rook", "queen"} :
          Construct(ls, a, k) =>
              (scope'.pc = "done" /\ scope'.exc # "None" /\ engine' = None)]_vars

\* the constructor, given the kernel name bishop and a layer that it added,
\* raised ValueError and there is no engine
C16_Witness ==
    /\ scope.pc = "done"
    /\ scope.exc = "ValueError"
    /\ log.kernel = "bishop"
    /\ log.fetches = 1
    /\ engine = None

\* the output of the policy of layer i of the engine on the raw values of
\* exactly the window ds
LayerWeights(i, ds) ==
    ApplyMask(engine.layers[i], StoreRead(store, engine.layers[i].layer, ds))

\* the float16 product at cell p of the outputs of layers i, i + 1, ...
RECURSIVE CellProduct(_, _, _, _)
CellProduct(i, ds, p, acc) ==
    IF i > Len(engine.layers) THEN acc
    ELSE CellProduct(i + 1, ds, p, Mul16(acc, LayerWeights(i, ds).at[p]))

\* C12: with no minimum area a returned mask is, cell by cell, the product
\* over the configured layers of each policy's output on the raw values of
\* exactly the window asked for; it has the shape of those outputs.
C12_ProductOfLayers ==
    \A c \in Callers :
        (Returned(c) /\ engine.min_area = None /\ Len(engine.layers) >= 1) =>
            LET first == LayerWeights(1, calls[c].ds)
            IN  /\ calls[c].result.nr = first.nr
                /\ calls[c].result.nc = first.nc
                /\ \A p \in Dom(first) :
                       calls[c].result.at[p] = CellProduct(2, calls[c].ds, p, first.at[p])

\* a mask of two layers for a pair of ranges was returned without a minimum
\* area and holds a positive cell
C12_Witness ==
    /\ Returned(1)
    /\ engine.min_area = None
    /\ Len(engine.layers) = 2
    /\ calls[1].ds.kind = "slices"
    /\ \E p \in Dom(calls[1].result) : RLt(Zero, calls[1].result.at[p])

\* the pair of ranges covering the whole domain of the store
FullWindow == Slices(Slice(0, StoreShape(store)[1]), Slice(0, StoreShape(store)[2]))

\* C22: the mask property (self[...]) returns the same array as the mask of
\* rows 0:R, cols 0:C for the domain shape (R, C), with or without a minimum
\* area, and in both calls the window read from the store is exactly the
\* whole domain.
C22_FullMaskEquivalence ==
    engine # None =>
        /\ BeginStep(Ellipsis, engine, store).ds_slice = Ellipsis
        /\ BeginStep(FullWindow, engine, store).ds_slice = FullWindow
        /\ \A c \in Callers :
               /\ (Returned(c) /\ calls[c].ds = Ellipsis) =>
                      calls[c].result = GenerateMask(engine, store, FullWindow)
               /\ (Returned(c) /\ calls[c].ds = FullWindow) =>
                      calls[c].result = GenerateMask(engine, store, Ellipsis)

\* the mask property of an engine with two layers and a minimum area
\* returned an array with a positive cell
C22_Witness ==
    /\ Returned(1)
    /\ calls[1].ds = Ellipsis
    /\ engine.min_area # None
    /\ Len(engine.layers) = 2
    /\ \E p \in Dom(calls[1].result) : RLt(Zero, calls[1].result.at[p])

\* C23: when a store read fails during a mask call, the call does nothing
\* after that read (no second attempt, no further read, fold, filter or
\* crop), the caller gets the store's error and no mask, and the engine is
\* unchanged.
C23_StoreFailurePropagates ==
    [][\A c \in Callers :
          (calls[c].pc = "idle" /\ calls'[c].pc = "done") =>
              LET t == calls'[c].trace
              IN  \A i \in 1 .. Len(t) :
                      (t[i].ev = "read" /\ ~t[i].ok) =>
                          /\ i = Len(t)
                          /\ calls'[c].result = Raise("StoreAccessError")
                          /\ scope'.exc = "StoreAccessError"
                          /\ engine' = engine]_vars

\* a mask call with a minimum area read and folded one layer and then
\* ended with the store's error at the read of the next
C23_Witness ==
    /\ calls[1].pc = "done"
    /\ calls[1].result = Raise("StoreAccessError")
    /\ Len(calls[1].trace) = 3
    /\ engine.min_area # None

\* caller c's call is over, on an engine with a minimum area, for a window
\* that is not a pair of ranges
NonRangeFiltered(c) ==
    /\ calls[c].pc = "done"
    /\ engine # None
    /\ engine.min_area # None
    /\ calls[c].ds.kind # "slices"

\* every read of the call asked the store for the window as requested, and
\* the array returned has the shape of the array that was filtered
ExpansionNoOp(c) ==
    LET t == calls[c].trace
    IN  \A i \in 1 .. Len(t) :
            /\ t[i].ev = "read" => t[i].window = calls[c].ds
            /\ (t[i].ev = "filter" /\ Returned(c)) =>
                   (calls[c].result.nr = t[i].nr /\ calls[c].result.nc = t[i].nc)

\* C24: with a minimum area and a window that is not a pair of ranges, the
\* window read is the one requested, the crop is the identity, and the call
\* gives a warning that boundary correctness is not guaranteed.
C24_NonRangeWindowWarns ==
    \A c \in Callers :
        NonRangeFiltered(c) =>
            /\ ExpansionNoOp(c)
            /\ \E i \in 1 .. Len(calls[c].trace) : calls[c].trace[i].ev = "warn"

\* the part of C24 about the expansion alone
C24_NonRangeWindowNoOp == \A c \in Callers : NonRangeFiltered(c) => ExpansionNoOp(c)

\* C26: after construction and any add_layer calls, every configured layer
\* name is in the store's catalogue and every name has one policy.
C26_LayerRegistry ==
    engine # None =>
        /\ layer_names(engine) \subseteq StoreLayers(store)
        /\ Len(engine.layers) = Cardinality(layer_names(engine))

\* an add_layer for a name outside the catalogue has just failed on an
\* engine of two layers
C26_Witness ==
    /\ scope.pc = "body"
    /\ scope.exc = "ValueError"
    /\ calls = NoCalls
    /\ Len(engine.layers) = 2

\* C27: the catalogue is fetched at most once, by an add_layer that finds it
\* not yet cached; steps of mask calls never fetch it.
C27_OneCatalogueLookup ==
    [][/\ log'.fetches <= 1
       /\ log'.fetches > log.fetches => (engine = None \/ engine.excl_layers = None)
       /\ calls' # calls => log'.fetches = log.fetches]_vars

\* the catalogue was fetched once by an engine that has two layers and has
\* returned a mask
C27_Witness ==
    /\ log.fetches = 1
    /\ Returned(1)
    /\ calls[1].result # None
    /\ Len(engine.layers) = 2

\* the window every read of caller c's call is to use
ReadWindow(c) ==
    IF engine.min_area # None /\ calls[c].ds.kind = "slices"
    THEN Slices(PaddedRange(calls[c].ds.y, 1, StoreShape(store)[1]),
                PaddedRange(calls[c].ds.x, 1, StoreShape(store)[2]))
    ELSE calls[c].ds

\* the shape of the array the store returns for the window w
ReadShape(w) ==
    IF w.kind = "slices" THEN <<w.y.stop - w.y.start, w.x.stop - w.x.start>>
    ELSE StoreShape(store)

\* C28: a mask call that returns has read every configured layer once, in
\* order, each time with the same window (the padded window with a minimum
\* area and a pair of ranges, the requested window otherwise), folding each
\* layer after its read; with a minimum area the filter follows the last
\* fold and runs on the array of the size read, and the crop follows the
\* filter; nothing else happens.
C28_CallOrdering ==
    \A c \in Callers :
        (Returned(c) /\ engine # None) =>
            LET t == calls[c].trace
                L == Len(engine.layers)
            IN  /\ Len(t) = 2 * L + (IF engine.min_area # None THEN 2 ELSE 0)
                /\ \A i \in 1 .. L :
                       /\ t[2 * i - 1] = [ev |-> "read", layer |-> engine.layers[i].layer,
                                          window |-> ReadWindow(c), ok |-> TRUE]
                       /\ t[2 * i] = [ev |-> "fold", layer |-> engine.layers[i].layer]
                /\ engine.min_area # None =>
                       /\ t[2 * L + 1] = [ev |-> "filter", nr |-> ReadShape(ReadWindow(c))[1],
                                          nc |-> ReadShape(ReadWindow(c))[2]]
                       /\ t[2 * L + 2] = [ev |-> "crop"]

\* a mask call for a pair of ranges that padding enlarges returned on an
\* engine with two layers and a minimum area
C28_Witness ==
    /\ Returned(1)
    /\ Len(engine.layers) = 2
    /\ engine.min_area # None
    /\ calls[1].ds.kind = "slices"
    /\ ReadWindow(1) # calls[1].ds
    /\ Len(calls[1].trace) = 6

(***************************************************************************)
(* Concurrent callers: the calls of several workers on one constructed     *)
(* engine, interleaved step by step, over a store whose reads succeed.     *)
(***************************************************************************)
ConcStores == {StoreOf(5), StoreOf(MaxRasterCode)}

ConcLayerLists ==
    {<<LayerMask("a", NoRange, None, Some({1}), FALSE, One)>>,
     <<LayerMask("a", NoRange, None, Some({1}), FALSE, One),
       LayerMask("b", NoRange, Some({1}), None, FALSE, Half)>>,
     <<LayerMask("b", NoRange, Some({1}), None, FALSE, Half),
       LayerMask("a", NoRange, None, None, TRUE, Half)>>}

ConcMinAreas == {None, Some(100)}

ConcWindows == {Slices(Slice(0, 1), Slice(1, 2)), Ellipsis}

\* the engine was constructed and the with-block entered; inp keeps the
\* engine as constructed
InitConc ==
    /\ store \in ConcStores
    /\ \E ls \in ConcLayerLists, a \in ConcMinAreas :
          LET r == NewExclusionMask(store, ls, a, "queen")
          IN  /\ ~Raised(r.self)
              /\ engine = r.self
              /\ inp = [op |-> "concurrent", engine |-> r.self]
              /\ log = [fetches |-> r.fetches, warned |-> FALSE, overlap |-> FALSE,
                        kernel |-> "queen"]
    /\ out = None
    /\ handle = "open"
    /\ calls = NoCalls
    /\ scope = [pc |-> "body", exc |-> "None"]

\* some call other than caller c's is between its beginning and its return
OthersRunning(c) == \E d \in Callers \ {c} : calls[d].pc \notin {"idle", "done"}

\* caller c's call takes one step, to the call record next
CallStep(c, next) ==
    /\ calls' = [calls EXCEPT ![c] = next]
    /\ log' = [log EXCEPT !.overlap = @ \/ OthersRunning(c)]
    /\ UNCHANGED <<store, handle, engine, scope, pureVars>>

MaskBegin(c, ds) ==
    /\ calls[c].pc = "idle"
    /\ CallStep(c, BeginStep(ds, engine, store))

MaskRead(c) ==
    /\ AtRead(calls[c], engine)
    /\ CallStep(c, ReadStep(calls[c], engine, store))

MaskFold(c) ==
    /\ calls[c].pc = "apply"
    /\ CallStep(c, FoldStep(calls, c, engine))

MaskFilter(c) ==
    /\ AtFilter(calls[c], engine)
    /\ CallStep(c, FilterStep(calls[c], engine))

MaskCrop(c) ==
    /\ calls[c].pc = "crop"
    /\ CallStep(c, CropStep(calls[c]))

MaskReturn(c) ==
    /\ AtReturn(calls[c], engine)
    /\ CallStep(c, ReturnStep(calls[c]))

NextConc ==
    \E c \in Callers :
        \/ \E ds \in ConcWindows : MaskBegin(c, ds)
        \/ MaskRead(c)
        \/ MaskFold(c)
        \/ MaskFilter(c)
        \/ MaskCrop(c)
        \/ MaskReturn(c)

SpecConc == InitConc /\ [][NextConc]_vars

\* C10: however the steps of the callers' mask calls interleave, each call
\* returns what the same call returns when run alone, and the engine's
\* layers, minimum area, kernel and cached catalogue stay as constructed.
C10_ConcurrentCallsIndependent ==
    /\ engine = inp.engine
    /\ \A c \in Callers :
           calls[c].pc = "done" =>
               calls[c].result = GenerateMask(inp.engine, store, calls[c].ds)

\* two calls overlapped on an engine with two layers and a minimum area and
\* both returned a mask
C10_Witness ==
    /\ log.overlap
    /\ Len(engine.layers) = 2
    /\ engine.min_area # None
    /\ \A c \in {1, 2} : Returned(c) /\ calls[c].result # None
    /\ calls[1].ds # calls[2].ds

(***************************************************************************)
(* The same policies in two orders: two engines over one store of three    *)
(* layers, built from one list of policies and from a rearrangement of it, *)
(* asked for the same window.                                              *)
(***************************************************************************)
\* raster whose value is the row number
RowsRaster ==
    [nr |-> SRows, nc |-> SCols, at |-> [p \in Cells(SRows, SCols) |-> p[1]]]

OrderStores ==
    {[shape |-> <<SRows, SCols>>,
      data |-> [a |-> RasterOf(code), b |-> Stripes, c |-> RowsRaster],
      broken |-> {}] : code \in {5, MaxRasterCode}}

OrderPolicies ==
    {LayerMask("a", NoRange, None, Some({1}), FALSE, Rat(3, 10)),
     LayerMask("a", NoRange, None, None, TRUE, Half),
     LayerMask("b", NoRange, Some({1}), None, FALSE, Rat(7, 10)),
     LayerMask("b", NoRange, Some({1}), None, FALSE, One),
     LayerMask("c", <<None, Some(1)>>, None, None, FALSE, Rat(9, 10))}

\* lists of two or three policies of OrderPolicies for different layers
OrderLists ==
    {ls \in UNION {[1 .. n -> OrderPolicies] : n \in 2 .. 3} :
        \A i, j \in 1 .. Len(ls) : i # j => ls[i].layer # ls[j].layer}

Orders(n) == {f \in [1 .. n -> 1 .. n] : \A i, j \in 1 .. n : i # j => f[i] # f[j]}

OrderWindows == {Slices(Slice(0, 1), Slice(0, 2)), Ellipsis}

InitOrder ==
    /\ store \in OrderStores
    /\ \E ls \in OrderLists, a \in ConcMinAreas, ds \in OrderWindows :
          \E f \in Orders(Len(ls)) :
              inp = [op |-> "order", layers |-> ls,
                     reordered |-> [i \in 1 .. Len(ls) |-> ls[f[i]]],
                     min_area |-> a, ds |-> ds]
    /\ out = None
    /\ handle = "open"
    /\ engine = None
    /\ calls = None
    /\ scope = None
    /\ log = None

\* ExclusionMask(excl_h5, *layers, min_area=...)[ds] for both lists
OrderCall ==
    /\ inp.op = "order"
    /\ out = None
    /\ out' = [first  |-> GenerateMask(
                             NewExclusionMask(store, inp.layers, inp.min_area, "queen").self,
                             store, inp.ds),
               second |-> GenerateMask(
                             NewExclusionMask(store, inp.reordered, inp.min_area, "queen").self,
                             store, inp.ds)]
    /\ UNCHANGED inp
    /\ UNCHANGED engineVars

NextOrder == OrderCall

SpecOrder == InitOrder /\ [][NextOrder]_vars

Ordered == inp.op = "order" /\ out # None

\* C11: two engines over the same store holding the same policies, added
\* in different orders, with the same minimum area and kernel, return
\* identical masks for every window.
C11_OrderIndependence == Ordered => out.first = out.second

\* the order independence of C11 on the lists of two policies
C11_OrderIndependenceOfTwo == (Ordered /\ Len(inp.layers) = 2) => C11_OrderIndependence

\* the product of the weights of the policies ls[i], ls[i + 1], ...
RECURSIVE WeightProduct(_, _, _)
WeightProduct(ls, i, acc) ==
    IF i > Len(ls) THEN acc ELSE WeightProduct(ls, i + 1, RMul(acc, ls[i].weight))

\* the same product in float16: every weight and every product rounded
RECURSIVE WeightProduct16(_, _, _)
WeightProduct16(ls, i, acc) ==
    IF i > Len(ls) THEN acc
    ELSE WeightProduct16(ls, i + 1, Fl16(RMul(acc, Fl16(ls[i].weight))))

AllBoolean(ls) == \A i \in 1 .. Len(ls) : ~ls[i].as_weights

\* the first engine returned a mask array
FirstMask == Ordered /\ ~Raised(out.first) /\ out.first # None

\* C21: with raw values in [0, 1] on the RawWeight layers, every cell of a
\* mask lies in [0, P], P the product of the weights of the configured
\* layers, and is exactly 0 or P when every layer is of boolean type.
C21_ValueRange ==
    FirstMask =>
        LET P == WeightProduct(inp.layers, 1, One)
        IN  \A p \in Dom(out.first) :
                /\ RLeq(Zero, out.first.at[p])
                /\ RLeq(out.first.at[p], P)
                /\ AllBoolean(inp.layers) => out.first.at[p] \in {Zero, P}

\* C21 as amended: P is the float16 product of the weights, taken in the
\* order of the layers.
C21_ValueRangeFloat16 ==
    FirstMask =>
        LET P == WeightProduct16(inp.layers, 1, One)
        IN  \A p \in Dom(out.first) :
                /\ RLeq(Zero, out.first.at[p])
                /\ RLeq(out.first.at[p], P)
                /\ AllBoolean(inp.layers) => out.first.at[p] \in {Zero, P}

\* a mask of three boolean layers with weights 3/10, 7/10, 9/10 and a
\* minimum area holds a cell equal to the float16 product of the weights
C21_Witness ==
    /\ FirstMask
    /\ Len(inp.layers) = 3
    /\ inp.min_area # None
    /\ \E p \in Dom(out.first) :
          /\ RLt(Zero, out.first.at[p])
          /\ out.first.at[p] = WeightProduct16(inp.layers, 1, One)

(***************************************************************************)
(* Filtering a padded window against filtering the whole domain: one       *)
(* combined mask over a domain of up to FRows x FCols cells, numbered in   *)
(* base 2 over the cell values 0, 1/2, and every pair of non-empty ranges  *)
(* inside the domain.                                                      *)
(***************************************************************************)
MaxPadCode == 63

PadValues == <<Zero, Half>>

PadMaskOf(nr, nc, code) ==
    [nr |-> nr, nc |-> nc,
     at |-> [p \in Cells(nr, nc) |-> PadValues[1 + Digit(code, RasterIdx(p, nc), 2)]]]

NonEmptyRangesIn(d) == {sl \in RangesIn(d) : sl.start < sl.stop}

InitPad ==
    /\ \E nr \in 1 .. FRows, nc \in 1 .. FCols, code \in 0 .. MaxPadCode,
          a \in MinAreas, k \in Kernels :
          \E y \in NonEmptyRangesIn(nr), x \in NonEmptyRangesIn(nc) :
              inp = [op |-> "padded_filter", mask |-> PadMaskOf(nr, nc, code),
                     min_area |-> a, kernel |-> k, ds |-> Slices(y, x)]
    /\ out = None
    /\ NoEngine

\* the steps of _generate_mask after the product, with a minimum area: the
\* product over the padded window, the area filter, the crop
PaddedFilterCall ==
    /\ inp.op = "padded_filter"
    /\ out = None
    /\ LET r == IncreaseMaskSlice(inp.ds, 1, <<inp.mask.nr, inp.mask.nc>>)
           w == r.new_slice
           filtered == AreaFilter(Crop(inp.mask, w.y.start, w.y.stop, w.x.start, w.x.stop),
                                  inp.min_area, inp.kernel)
       IN  out' = [new_slice |-> w, filtered |-> filtered,
                   mask |-> CropBy(filtered, r.sub_slice)]
    /\ UNCHANGED inp
    /\ UNCHANGED engineVars

NextPad == PaddedFilterCall

SpecPad == InitPad /\ [][NextPad]_vars

PaddedFiltered == inp.op = "padded_filter" /\ out # None

\* C30: a cell that is positive after the area filter over the padded window
\* is positive after the area filter over the whole domain.
C30_PaddingErrsTowardExclusion ==
    PaddedFiltered =>
        LET whole == AreaFilter(inp.mask, inp.min_area, inp.kernel)
        IN  \A p \in Dom(out.filtered) :
                Positive(out.filtered.at[p]) =>
                    Positive(whole.at[<<out.new_slice.y.start + p[1],
                                        out.new_slice.x.start + p[2]>>])

\* the same on the padded windows that hold a background cell
C30_PaddingWithBackground ==
    (PaddedFiltered /\ \E p \in Dom(out.filtered) : ~Positive(out.filtered.at[p]))
        => C30_PaddingErrsTowardExclusion

\* the padded window cut a region the whole domain keeps, and removed it
C30_WindowRemovesMore ==
    /\ PaddedFiltered
    /\ LET whole == AreaFilter(inp.mask, inp.min_area, inp.kernel)
       IN  \E p \in Dom(out.filtered) :
               /\ out.filtered.at[p] = Zero
               /\ Positive(whole.at[<<out.new_slice.y.start + p[1],
                                      out.new_slice.x.start + p[2]>>])

====
